---------------------------- MODULE Spec2Model ----------------------------
(***************************************************************************)
(* The Home page component of src/app/page.tsx (the current revision,      *)
(* lines 84-195): three pieces of React state, one effect that calls the   *)
(* async function fetchPosts once, and the render function that maps the   *)
(* state to one of four branches.                                          *)
(*                                                                         *)
(* JavaScript values are records [t, v]: t is the type tag and v the text  *)
(* of a string (or the message of an Error) as the tuple of its pieces, so *)
(* that a template literal is the concatenation of tuples and the empty    *)
(* string is <<>>.                                                         *)
(*                                                                         *)
(* One step of the model is one run of the program between two awaits, cut *)
(* again at each set-state call: React may render between two set-state    *)
(* calls made after an await (a legacy root) or batch them (a concurrent   *)
(* root); the batched behaviour shows a subset of the views modelled here. *)
(***************************************************************************)
EXTENDS Integers, Sequences, FiniteSets, TLC

\* Bounds of the model.
MaxPosts == 2       \* longest list of records in a response body
MaxLoads == 2       \* page loads (page instances) in one behaviour

VARIABLES
    env,              \* process.env.NEXT_PUBLIC_BACKEND_URL
    instance,         \* number of the page load
    posts,            \* useState<Post[]>([])
    loading,          \* useState(true)
    error,            \* useState<string | null>(null)
    effect,           \* React's record of the effect: has it run, with which deps
    calls,            \* the invocations of fetchPosts: position and locals of each
    view,             \* what the last render returned
    requests,         \* the requests issued by this page instance, in order
    setPostsCalls,    \* number of setPosts calls of this page instance
    setErrorCalls,    \* number of setError calls of this page instance
    jsonCalls,        \* number of response.json() calls of this page instance
    errorsShown       \* history, over all loads: what the error branch has displayed,
                      \* with the status of the response (0: the fetch was rejected)

vars == <<env, instance, posts, loading, error, effect, calls, view, requests,
          setPostsCalls, setErrorCalls, jsonCalls, errorsShown>>

---------------------------------------------------------------------------
\* JavaScript values

Undefined == [t |-> "undefined", v |-> <<>>]

Null == [t |-> "null", v |-> <<>>]

Str(s) == [t |-> "string", v |-> s]

ErrorObj(msg) == [t |-> "Error", v |-> msg]

\* ToBoolean: undefined, null and the empty string are falsy.
Truthy(x) ==
    CASE x.t = "undefined" -> FALSE
      [] x.t = "null" -> FALSE
      [] x.t = "string" -> x.v # <<>>
      [] OTHER -> TRUE

\* a || b
Or(a, b) == IF Truthy(a) THEN a ELSE b

\* err instanceof Error
InstanceOfError(x) == x.t = "Error"

---------------------------------------------------------------------------
\* The inputs: configuration, responses, thrown values

EnvValues ==
    { Undefined, Str(<<>>), Str(<<"https://api.example.com">>),
      Str(<<"http://localhost:8080">>) }

PostPool ==
    { [id |-> 1, title |-> "Hello", slug |-> "hello", excerpt |-> "First post",
       imageUrl |-> Undefined, tags |-> <<>>],
      [id |-> 2, title |-> "World", slug |-> "world", excerpt |-> "Second post",
       imageUrl |-> Str(<<"https://img.example.com/2.png">>),
       tags |-> <<"java", "spring">>],
      [id |-> 3, title |-> "Again", slug |-> "again", excerpt |-> "Third post",
       imageUrl |-> Str(<<>>), tags |-> <<"spring", "java", "java">>] }

PostLists == UNION { [1..n -> PostPool] : n \in 0..MaxPosts }

\* A response body: the JSON text of an array of records, or text that is no JSON.
Bodies ==
    { [json |-> "array", records |-> ps] : ps \in PostLists }
        \cup { [json |-> "malformed", records |-> <<>>] }

NoBody == [json |-> "none", records |-> <<>>]

Statuses == {200, 201, 404, 500}

\* What a rejected promise may carry: an Error with a message, an Error with the
\* empty message, a thrown string.
ThrownValues ==
    { ErrorObj(<<"Failed to fetch">>), ErrorObj(<<"Unexpected token < in JSON">>),
      ErrorObj(<<>>), Str(<<"boom">>) }

---------------------------------------------------------------------------
\* fetchPosts: its pure parts

DefaultBackendUrl == Str(<<"http://localhost:8080">>)

\* A faulty variant of BackendUrl: ?? in place of ||, which keeps the empty string.
BackendUrlNullish(e) == IF e.t \in {"undefined", "null"} THEN DefaultBackendUrl ELSE e

\* process.env.NEXT_PUBLIC_BACKEND_URL || 'http://localhost:8080'
BackendUrl(e) == Or(e, DefaultBackendUrl)

\* `${backendUrl}/api/posts`
RequestUrl(e) == BackendUrl(e).v \o <<"/api/posts">>

\* A faulty variant of ResponseOk: a status test with no upper bound.
ResponseOkNoUpperBound(status) == status >= 200

\* response.ok
ResponseOk(status) == status \in 200..299

\* A faulty variant of HttpErrorMessage: the status is left out.
HttpErrorMessageGeneric(status) == <<"HTTP error!">>

\* `HTTP error! status: ${response.status}`
HttpErrorMessage(status) == <<"HTTP error! status: ", ToString(status)>>

\* The catch block: the argument of setError.
CatchMessage(err) ==
    IF InstanceOfError(err) THEN err.v ELSE <<"An unknown error occurred.">>

\* response.json() on a body that is the JSON text of an array.
JsonParse(body) == body.records

---------------------------------------------------------------------------
\* The render function

LoadingText == <<"Loading posts from backend...">>

ErrorPrefix == <<"Error fetching data: ">>

EmptyText == <<"No posts found yet. Add some via the backend API!">>

CardsHeading == <<"Latest Blog Posts">>

\* post.tags.map((tag, index) => <span key={index}>{tag}</span>)
TagSpans(tags) == [j \in 1..Len(tags) |-> [key |-> j - 1, text |-> tags[j]]]

Card(post) ==
    [ key |-> post.id,
      image |-> IF Truthy(post.imageUrl)
                THEN <<[src |-> post.imageUrl.v, alt |-> post.title]>>
                ELSE <<>>,
      title |-> post.title,
      excerpt |-> post.excerpt,
      tags |-> TagSpans(post.tags),
      href |-> <<"/blog/", post.slug>> ]

\* A faulty variant of Cards: an off-by-one that drops the first record.
CardsSkipFirst(ps) == [i \in 1..(Len(ps) - 1) |-> Card(ps[i + 1])]

\* posts.map((post) => <div key={post.id}> ... </div>)
Cards(ps) == [i \in 1..Len(ps) |-> Card(ps[i])]

\* A faulty variant of Render: the error test comes before the loading test.
RenderErrorFirst(p, l, e) ==
    IF Truthy(e) THEN [kind |-> "error", text |-> ErrorPrefix \o e.v, cards |-> <<>>]
    ELSE IF l THEN [kind |-> "loading", text |-> LoadingText, cards |-> <<>>]
    ELSE IF Len(p) = 0 THEN [kind |-> "empty", text |-> EmptyText, cards |-> <<>>]
    ELSE [kind |-> "cards", text |-> CardsHeading, cards |-> Cards(p)]

\* A faulty variant of Render: the test of posts.length is missing.
RenderNoEmptyBranch(p, l, e) ==
    IF l THEN [kind |-> "loading", text |-> LoadingText, cards |-> <<>>]
    ELSE IF Truthy(e) THEN [kind |-> "error", text |-> ErrorPrefix \o e.v, cards |-> <<>>]
    ELSE [kind |-> "cards", text |-> CardsHeading, cards |-> Cards(p)]

\* The body of Home after the hooks: the three early returns, then the card list.
Render(p, l, e) ==
    IF l THEN [kind |-> "loading", text |-> LoadingText, cards |-> <<>>]
    ELSE IF Truthy(e) THEN [kind |-> "error", text |-> ErrorPrefix \o e.v, cards |-> <<>>]
    ELSE IF Len(p) = 0 THEN [kind |-> "empty", text |-> EmptyText, cards |-> <<>>]
    ELSE [kind |-> "cards", text |-> CardsHeading, cards |-> Cards(p)]

\* The history of displayed errors after a render, caused by call i, that returned v.
Shown(i, v) ==
    IF v.kind = "error"
    THEN errorsShown \cup {[status |-> calls[i].status, text |-> v.text]}
    ELSE errorsShown

---------------------------------------------------------------------------
\* The effect

\* A faulty variant of EffectDeps: the effect depends on a piece of state.
EffectDepsOnLoading == <<loading>>

\* The dependency array of useEffect.
EffectDeps == <<>>

\* React runs an effect after the first render, and after a render in which its
\* dependencies differ from those of its last run.
EffectPending == ~effect.ran \/ effect.deps # EffectDeps

NewCall ==
    [pc |-> "awaitFetch", fetched |-> "pending", parsed |-> "none", status |-> 0,
     body |-> NoBody, data |-> <<>>, err |-> Undefined]

\* The requests whose response has not arrived.
InFlight == Cardinality({i \in DOMAIN calls : calls[i].pc = "awaitFetch"})

---------------------------------------------------------------------------
\* The state of a freshly mounted page: the useState initial values and the first
\* render, before the effect has run.

Mounted ==
    /\ posts = <<>>
    /\ loading = TRUE
    /\ error = Null
    /\ effect = [ran |-> FALSE, deps |-> <<>>]
    /\ calls = <<>>
    /\ view = Render(<<>>, TRUE, Null)
    /\ requests = <<>>
    /\ setPostsCalls = 0
    /\ setErrorCalls = 0
    /\ jsonCalls = 0

Init ==
    /\ env \in EnvValues
    /\ instance = 1
    /\ errorsShown = {}
    /\ Mounted

\* The effect runs: fetchPosts() is called and runs up to its first await.
RunEffect ==
    /\ EffectPending
    /\ effect' = [ran |-> TRUE, deps |-> EffectDeps]
    /\ requests' = Append(requests, [method |-> "GET", url |-> RequestUrl(env)])
    /\ calls' = Append(calls, NewCall)
    /\ UNCHANGED <<env, instance, posts, loading, error, view, setPostsCalls,
                   setErrorCalls, jsonCalls, errorsShown>>

\* The network: the promise of fetch resolves with a response.
FetchResolves(i) ==
    /\ calls[i].pc = "awaitFetch"
    /\ \E s \in Statuses, b \in Bodies :
          calls' = [calls EXCEPT ![i] = [@ EXCEPT !.pc = "fetchSettled",
                       !.fetched = "resolved", !.status = s, !.body = b]]
    /\ UNCHANGED <<env, instance, posts, loading, error, effect, view, requests,
                   setPostsCalls, setErrorCalls, jsonCalls, errorsShown>>

\* The network: the promise of fetch rejects.
FetchRejects(i) ==
    /\ calls[i].pc = "awaitFetch"
    /\ \E e \in ThrownValues :
          calls' = [calls EXCEPT ![i] = [@ EXCEPT !.pc = "fetchSettled",
                       !.fetched = "rejected", !.err = e]]
    /\ UNCHANGED <<env, instance, posts, loading, error, effect, view, requests,
                   setPostsCalls, setErrorCalls, jsonCalls, errorsShown>>

\* The catch block with err = e: setError(...) and the render it causes.
Catch(i, e) ==
    /\ error' = Str(CatchMessage(e))
    /\ setErrorCalls' = setErrorCalls + 1
    /\ calls' = [calls EXCEPT ![i] = [@ EXCEPT !.pc = "finally", !.err = e]]
    /\ view' = Render(posts, loading, error')
    /\ errorsShown' = Shown(i, view')
    /\ UNCHANGED <<posts, loading, jsonCalls>>

\* fetchPosts resumes after `await fetch(...)`.
AfterFetch(i) ==
    /\ calls[i].pc = "fetchSettled"
    /\ IF calls[i].fetched = "rejected"
       THEN Catch(i, calls[i].err)
       ELSE IF ~ResponseOk(calls[i].status)
       THEN Catch(i, ErrorObj(HttpErrorMessage(calls[i].status)))
       ELSE /\ jsonCalls' = jsonCalls + 1
            /\ calls' = [calls EXCEPT ![i] = [@ EXCEPT !.pc = "awaitJson",
                            !.parsed = "pending"]]
            /\ UNCHANGED <<posts, loading, error, view, setPostsCalls, setErrorCalls,
                           errorsShown>>
    /\ UNCHANGED <<env, instance, effect, requests, setPostsCalls>>

\* The promise of response.json() settles: it resolves with the parsed array, or
\* rejects when the body is no JSON.
JsonSettles(i) ==
    /\ calls[i].pc = "awaitJson"
    /\ IF calls[i].body.json = "array"
       THEN calls' = [calls EXCEPT ![i] = [@ EXCEPT !.pc = "jsonSettled",
                         !.parsed = "resolved", !.data = JsonParse(calls[i].body)]]
       ELSE \E e \in ThrownValues :
               calls' = [calls EXCEPT ![i] = [@ EXCEPT !.pc = "jsonSettled",
                            !.parsed = "rejected", !.err = e]]
    /\ UNCHANGED <<env, instance, posts, loading, error, effect, view, requests,
                   setPostsCalls, setErrorCalls, jsonCalls, errorsShown>>

\* fetchPosts resumes after `await response.json()`.
AfterJson(i) ==
    /\ calls[i].pc = "jsonSettled"
    /\ IF calls[i].parsed = "rejected"
       THEN Catch(i, calls[i].err) /\ UNCHANGED setPostsCalls
       ELSE /\ posts' = calls[i].data
            /\ setPostsCalls' = setPostsCalls + 1
            /\ calls' = [calls EXCEPT ![i] = [@ EXCEPT !.pc = "finally"]]
            /\ view' = Render(posts', loading, error)
            /\ errorsShown' = Shown(i, view')
            /\ UNCHANGED <<loading, error, setErrorCalls, jsonCalls>>
    /\ UNCHANGED <<env, instance, effect, requests>>

\* A faulty variant of Finally: setLoading(false) is skipped after a failure, as if
\* it stood at the end of the try block.
FinallyOnlyAfterSuccess(i) ==
    /\ calls[i].pc = "finally"
    /\ loading' = (loading /\ setErrorCalls > 0)
    /\ calls' = [calls EXCEPT ![i] = [@ EXCEPT !.pc = "done"]]
    /\ view' = Render(posts, loading', error)
    /\ errorsShown' = Shown(i, view')
    /\ UNCHANGED <<env, instance, posts, error, effect, requests, setPostsCalls,
                   setErrorCalls, jsonCalls>>

\* The finally block: setLoading(false) and the render it causes.
Finally(i) ==
    /\ calls[i].pc = "finally"
    /\ loading' = FALSE
    /\ calls' = [calls EXCEPT ![i] = [@ EXCEPT !.pc = "done"]]
    /\ view' = Render(posts, loading', error)
    /\ errorsShown' = Shown(i, view')
    /\ UNCHANGED <<env, instance, posts, error, effect, requests, setPostsCalls,
                   setErrorCalls, jsonCalls>>

\* The page is loaded again: a new page instance, mounted afresh.
Reload ==
    /\ instance < MaxLoads
    /\ instance' = instance + 1
    /\ posts' = <<>>
    /\ loading' = TRUE
    /\ error' = Null
    /\ effect' = [ran |-> FALSE, deps |-> <<>>]
    /\ calls' = <<>>
    /\ view' = Render(posts', loading', error')
    /\ requests' = <<>>
    /\ setPostsCalls' = 0
    /\ setErrorCalls' = 0
    /\ jsonCalls' = 0
    /\ UNCHANGED <<env, errorsShown>>

Next ==
    \/ RunEffect
    \/ \E i \in DOMAIN calls : FetchResolves(i)
    \/ \E i \in DOMAIN calls : FetchRejects(i)
    \/ \E i \in DOMAIN calls : AfterFetch(i)
    \/ \E i \in DOMAIN calls : JsonSettles(i)
    \/ \E i \in DOMAIN calls : AfterJson(i)
    \/ \E i \in DOMAIN calls : Finally(i)
    \/ Reload

Spec == Init /\ [][Next]_vars

\* The program's own steps are run by the JavaScript event loop: a pending effect
\* and a continuation whose promise has settled are eventually run. Nothing makes
\* the network answer, and nothing makes the user load the page again.
ProgramStep ==
    \/ RunEffect
    \/ \E i \in DOMAIN calls : AfterFetch(i)
    \/ \E i \in DOMAIN calls : AfterJson(i)
    \/ \E i \in DOMAIN calls : Finally(i)

FairSpec == Spec /\ WF_vars(ProgramStep)

---------------------------------------------------------------------------
\* The vocabulary of the properties

Is2xx(s) == s >= 200 /\ s <= 299

\* fetchPosts has run to its end.
Finished(i) == calls[i].pc = "done"

\* The response of call i has a 2xx status and a body that is a JSON array.
Got2xxList(i) ==
    /\ calls[i].fetched = "resolved"
    /\ Is2xx(calls[i].status)
    /\ calls[i].body.json = "array"

\* The response of call i has a status that is not 2xx.
GotHttpError(i) == calls[i].fetched = "resolved" /\ ~Is2xx(calls[i].status)

\* The request of call i is over: nothing of it is awaited any more.
RequestSettled(i) ==
    \/ calls[i].fetched = "rejected"
    \/ GotHttpError(i)
    \/ calls[i].parsed \in {"resolved", "rejected"}

---------------------------------------------------------------------------
\* C1: once fetchPosts has finished on a 2xx response whose body is a list of
\* N >= 1 records, the view is the card list with exactly N cards, card k showing
\* the title, the excerpt and all the tags of record k, in the order of the response.
C1_CardsMatchRecords ==
    \A i \in DOMAIN calls :
        (Finished(i) /\ Got2xxList(i) /\ Len(calls[i].body.records) >= 1) =>
            LET rs == calls[i].body.records IN
            /\ view.kind = "cards"
            /\ Len(view.cards) = Len(rs)
            /\ \A k \in 1..Len(rs) :
                  /\ view.cards[k].title = rs[k].title
                  /\ view.cards[k].excerpt = rs[k].excerpt
                  /\ Len(view.cards[k].tags) = Len(rs[k].tags)
                  /\ \A j \in 1..Len(rs[k].tags) :
                        view.cards[k].tags[j].text = rs[k].tags[j]

C1_Witness ==
    \E i \in DOMAIN calls :
        /\ Finished(i) /\ Got2xxList(i)
        /\ Len(calls[i].body.records) = 2
        /\ calls[i].body.records[1] # calls[i].body.records[2]
        /\ Len(calls[i].body.records[2].tags) >= 2
        /\ view.kind = "cards"

\* C2: a response with a non-2xx status never has its body parsed and never
\* changes posts, and once fetchPosts has finished the view is the error branch,
\* with no card.
C2_HttpErrorShowsError ==
    \A i \in DOMAIN calls :
        GotHttpError(i) =>
            /\ jsonCalls = 0
            /\ calls[i].parsed = "none"
            /\ setPostsCalls = 0
            /\ posts = <<>>
            /\ Finished(i) => (view.kind = "error" /\ view.cards = <<>>)

C2_Witness ==
    \E i \in DOMAIN calls :
        /\ Finished(i)
        /\ calls[i].status = 404
        /\ calls[i].body.json = "array"
        /\ Len(calls[i].body.records) = 2
        /\ view.kind = "error"

\* C3: once fetchPosts has finished on a 2xx response whose body is the empty
\* array, the view is the empty-state message: not the error branch, and no card.
C3_EmptyArrayShowsEmptyState ==
    \A i \in DOMAIN calls :
        (Finished(i) /\ Got2xxList(i) /\ calls[i].body.records = <<>>) =>
            /\ view.kind = "empty"
            /\ view.text = <<"No posts found yet. Add some via the backend API!">>
            /\ view.cards = <<>>

C3_Witness ==
    \E i \in DOMAIN calls :
        /\ Finished(i) /\ Got2xxList(i)
        /\ calls[i].body.records = <<>>
        /\ calls[i].status = 201
        /\ view.kind = "empty"

FailureMessage(i) ==
    IF GotHttpError(i) THEN <<"HTTP error! status: ", ToString(calls[i].status)>>
    ELSE IF calls[i].err.t = "Error" THEN calls[i].err.v
    ELSE <<"An unknown error occurred.">>

C5_SingleRequest ==
    /\ Len(requests) <= 1
    /\ InFlight <= 1
    /\ Len(calls) = Len(requests)
    /\ effect.ran <=> Len(requests) = 1
    /\ \A k \in DOMAIN requests : requests[k].method = "GET"
    /\ requests = <<>> =>
          (loading /\ posts = <<>> /\ error = Null /\ setPostsCalls + setErrorCalls = 0)

C5_Witness ==
    /\ Len(requests) = 1
    /\ setErrorCalls = 1
    /\ ~loading
    /\ \E i \in DOMAIN calls : Finished(i)

C7_OneBranchByPrecedence ==
    LET errorSet == error.t = "string" /\ error.v # <<>> IN
    /\ view.kind \in {"loading", "error", "empty", "cards"}
    /\ view.kind = "loading" <=> loading
    /\ view.kind = "error" <=> (~loading /\ errorSet)
    /\ view.kind = "empty" <=> (~loading /\ ~errorSet /\ posts = <<>>)
    /\ view.kind = "cards" <=> (~loading /\ ~errorSet /\ posts # <<>>)
    /\ view.kind = "cards" => error = Null
    /\ view.kind # "cards" => view.cards = <<>>

C7_Witness ==
    /\ loading
    /\ error # Null /\ error.v # <<>>
    /\ view.kind = "loading"

\* C8: a page instance starts in the loading branch; loading becomes false only
\* when fetchPosts has finished, on a request that is over; once false it stays
\* false for the rest of the page instance; and once the request is over (the fetch
\* rejected, the status is not 2xx, or the body was parsed or failed to parse)
\* loading eventually becomes false.
C8_LoadingEndsAndStaysEnded ==
    /\ [](calls = <<>> => (loading /\ view.kind = "loading"))
    /\ [](~loading => \E i \in DOMAIN calls : Finished(i) /\ RequestSettled(i))
    /\ [][(~loading /\ instance' = instance) => ~loading']_vars
    /\ \A n \in 1..MaxLoads :
          (instance = n /\ \E i \in DOMAIN calls : RequestSettled(i))
              ~> (instance # n \/ ~loading)

C8_Witness ==
    /\ ~loading
    /\ view.kind = "error"
    /\ \E i \in DOMAIN calls : Finished(i) /\ calls[i].fetched = "rejected"

\* C9, as claimed: the empty-state message is displayed only when fetchPosts has
\* finished on a 2xx response whose body parsed to the empty array.
C9_EmptyStateOnlyAfterEmptySuccess ==
    view.kind = "empty" =>
        \E i \in DOMAIN calls :
            /\ Finished(i) /\ Got2xxList(i)
            /\ calls[i].parsed = "resolved"
            /\ calls[i].body.records = <<>>

\* C10: error and posts are never both set: a page instance calls at most one of
\* setPosts and setError, at most once, and posts is the empty list or the parsed
\* body of a 2xx response.
C10_PostsXorError ==
    /\ error # Null => posts = <<>>
    /\ posts # <<>> => error = Null
    /\ setPostsCalls + setErrorCalls <= 1
    /\ setPostsCalls = 0 => posts = <<>>
    /\ setErrorCalls = 0 => error = Null
    /\ setPostsCalls > 0 =>
          \E i \in DOMAIN calls :
              Got2xxList(i) /\ calls[i].parsed = "resolved" /\ posts = calls[i].body.records

C10_Witness ==
    /\ setErrorCalls = 1
    /\ setPostsCalls = 0
    /\ \E i \in DOMAIN calls :
          Finished(i) /\ Is2xx(calls[i].status) /\ calls[i].parsed = "rejected"

=============================================================================
